---- MODULE Spec2Model ----
(***************************************************************************)
(* Model of the scheduling engine of src/src/utils/aiScheduler.ts          *)
(* (class AIScheduler): generateSchedule with its private helpers,         *)
(* rescheduleAfterMissedTasks and calculateReviewSchedule.                 *)
(*                                                                         *)
(* Numbers.  JavaScript numbers are modelled as exact rationals:           *)
(*   - a topic's input estimatedHours is a whole number of hours;          *)
(*   - every hour quantity inside generateSchedule is an integer count of  *)
(*     1/HourUnits hours, so estimatedHours * (100 - progress) / 100 is    *)
(*     exact;                                                              *)
(*   - a task's estimatedHours is a reduced fraction <<n, d>> of such      *)
(*     units, so the rescheduler's division is exact.                      *)
(* Time.  An instant is a count of ticks, TicksPerDay ticks to the day; a  *)
(* calendar date is a day number (the date's UTC midnight is tick          *)
(* day * TicksPerDay).                                                     *)
(* Objects.  Objects that the code shares between arrays are kept in       *)
(* heaps (topicObjs, taskObjs); the arrays hold references (indices).      *)
(***************************************************************************)
EXTENDS Integers, Sequences, FiniteSets, TLC

VARIABLES
    subjects,         \* the Subject[] the caller passes to generateSchedule
    now,              \* the instant of the generateSchedule call (ticks)
    pc,               \* position of the caller: "start", "allocating", "done"
    topicObjs,        \* heap of the objects extractTopicsFromSubjects creates
    incompleteTasks,  \* generateSchedule's incompleteTasks array (refs into topicObjs)
    studyPlan,        \* result of calculateStudyPlan (computed = FALSE before it ran)
    remainingTopics,  \* generateDailyTasks' working list (refs into topicObjs)
    currentDay,       \* generateDailyTasks' day counter
    dailyTasks,       \* generateDailyTasks' accumulated output (refs into taskObjs)
    dayLog,           \* per finished allocator day: what the scan did (observer)
    taskObjs,         \* heap of DailyTask objects
    plans,            \* the SchedulePlan objects returned so far (dailyTasks are refs)
    calls,            \* per rescheduleAfterMissedTasks call: arguments and effect (observer)
    completedTopics,  \* the Topic[] the caller passes to calculateReviewSchedule
    reviewTasks       \* the DailyTask[] calculateReviewSchedule returned

vars == <<subjects, now, pc, topicObjs, incompleteTasks, studyPlan, remainingTopics,
          currentDay, dailyTasks, dayLog, taskObjs, plans, calls, completedTopics,
          reviewTasks>>

----------------------------------------------------------------------------
(* Bounds of the model *)

MaxSubjects == 2      \* subjects in the list passed to generateSchedule
MaxTopics == 2        \* topics in that list, all subjects together
MaxMissed == 2        \* tasks in the missed list
MaxReschedules == 2   \* calls of rescheduleAfterMissedTasks in a run
MaxTodayShift == 1    \* days between generateSchedule and the rescheduling
MaxGenerations == 2   \* calls of generateSchedule on one subject list
MaxReviewTopics == 2  \* topics in the list passed to calculateReviewSchedule
MaxReviewCalls == 2   \* calls of calculateReviewSchedule on one list
MaxAllocTopics == 3   \* topics of the one subject of the allocator runs

(* Units *)

HourUnits == 100      \* units to the hour: the denominator of line 98
TicksPerDay == 2      \* ticks to the day: 1000 * 60 * 60 * 24 ms of line 124

(* Input value sets.  Hours and daily budgets are whole hours, dates are    *)
(* day numbers, day 0 being the day of the generateSchedule call.           *)

Difficulty == {"easy", "medium", "hard"}

TopicOf(h, p, d, c) == [estimatedHours |-> h, progress |-> p, difficulty |-> d, completed |-> c]

TopicAttrs ==
    { TopicOf(3, 0, "hard", FALSE),       \* 3h
      TopicOf(1, 0, "hard", FALSE),       \* 1h, at three difficulties
      TopicOf(1, 0, "medium", FALSE),
      TopicOf(1, 0, "easy", FALSE),
      TopicOf(3, 75, "hard", FALSE),      \* 0.75h
      TopicOf(1, 75, "easy", FALSE),      \* 0.25h, below the floor
      TopicOf(1, 100, "easy", FALSE),     \* nothing left, not completed
      TopicOf(3, 100, "hard", TRUE) }     \* completed

SubjectOf(e, d, p) == [examDate |-> e, dailyHours |-> d, progress |-> p]

SubjectAttrs == { SubjectOf(10, 2, 20), SubjectOf(0, 1, 50) }

NowSet == {1}

(* The narrower inputs of the rescheduling runs *)

ReschedTopicAttrs ==
    { TopicOf(3, 0, "hard", FALSE), TopicOf(1, 0, "easy", FALSE),
      TopicOf(3, 75, "hard", FALSE), TopicOf(1, 75, "easy", FALSE),
      TopicOf(3, 100, "hard", TRUE) }

ReschedSubjectAttrs ==
    { SubjectOf(10, 2, 20), SubjectOf(10, 1, 50), SubjectOf(2, 1, 50), SubjectOf(0, 2, 20) }

(* The inputs of the runs that look at the recommendations: daily budgets  *)
(* on both sides of the 2h and 8h thresholds, exams on both sides of the    *)
(* 14 and 60 day thresholds                                                 *)

RecTopicAttrs ==
    { TopicOf(3, 0, "hard", FALSE), TopicOf(1, 0, "easy", FALSE),
      TopicOf(3, 100, "hard", TRUE) }

RecSubjectAttrs ==
    { SubjectOf(10, 1, 20), SubjectOf(30, 2, 50), SubjectOf(10, 8, 50), SubjectOf(70, 9, 20) }

(* The inputs of the runs that look at the allocator: topics around the     *)
(* 0.5h floor at high priority, and horizons and budgets that run out       *)

AllocTopicAttrs ==
    { TopicOf(3, 0, "hard", FALSE),       \* 3h
      TopicOf(1, 0, "easy", FALSE),       \* 1h
      TopicOf(1, 0, "medium", FALSE),
      TopicOf(1, 50, "easy", FALSE),      \* 0.5h, the floor
      TopicOf(1, 75, "hard", FALSE),      \* 0.25h, ahead of the easy topics
      TopicOf(1, 100, "hard", FALSE),     \* nothing left, not completed
      TopicOf(3, 0, "hard", TRUE) }       \* completed, at progress 0

AllocSubjectAttrs ==
    { SubjectOf(10, 2, 20), SubjectOf(2, 1, 50), SubjectOf(2, 0, 50) }

(* The inputs of the runs that look at termination *)

TermTopicAttrs ==
    { TopicOf(3, 0, "hard", FALSE), TopicOf(1, 0, "easy", FALSE),
      TopicOf(1, 75, "hard", FALSE),      \* 0.25h: never removed
      TopicOf(1, 100, "hard", FALSE),     \* nothing left, not completed
      TopicOf(3, 0, "hard", TRUE) }

TermSubjectAttrs == { SubjectOf(10, 2, 20), SubjectOf(2, 1, 50), SubjectOf(2, 0, 50) }

(* The inputs of the runs that look at the identity of tasks *)

IdTopicAttrs == { TopicOf(3, 0, "hard", FALSE), TopicOf(1, 0, "easy", FALSE) }

IdSubjectAttrs == { SubjectOf(10, 2, 20), SubjectOf(2, 1, 50) }

(* The inputs of calculateReviewSchedule: Topic objects with any id (the    *)
(* same topic may be listed twice), estimatedHours in 1/HourUnits (0h, 1h,  *)
(* 2.5h, 2.55h, 3h), called at any tick of a day.  A string is the list of  *)
(* its pieces: the ids are "a", "a-1" and "1".                              *)

ReviewIds == { <<"a">>, <<"a", "-", "1">>, <<"1">> }

ReviewTopicAttrs ==
    {[id |-> i, subjectName |-> 1, estimatedHours |-> h, difficulty |-> d[1], title |-> d[2]] :
        i \in ReviewIds, h \in {0, 100, 250, 255, 300},
        d \in {<<"easy", <<"Algebra">> >>, <<"hard", <<"Review: ", "Sets">> >>}}

ReviewNowSet == 0..(TicksPerDay - 1)

----------------------------------------------------------------------------
(* Arithmetic helpers *)

Min(a, b) == IF a <= b THEN a ELSE b
Max(a, b) == IF a >= b THEN a ELSE b
Abs(a) == IF a < 0 THEN -a ELSE a

\* Math.ceil(a / b) for b > 0
CeilDiv(a, b) == -((-a) \div b)

RECURSIVE GCD(_, _)
GCD(a, b) == IF b = 0 THEN a ELSE GCD(b, a % b)

\* reduced fraction n/d, d > 0
Frac(n, d) == LET g == GCD(Abs(n), d) IN IF g = 0 THEN <<0, 1>> ELSE <<n \div g, d \div g>>
FracAdd(x, y) == Frac(x[1] * y[2] + y[1] * x[2], x[2] * y[2])
FracDivInt(x, k) == Frac(x[1], x[2] * k)
FracMulInt(x, k) == Frac(x[1] * k, x[2])
FracSub(x, y) == Frac(x[1] * y[2] - y[1] * x[2], x[2] * y[2])
FracLeq(x, y) == x[1] * y[2] <= y[1] * x[2]

RECURSIVE SumSeq(_)
SumSeq(s) == IF s = <<>> THEN 0 ELSE Head(s) + SumSeq(Tail(s))

RECURSIVE FracSum(_)
FracSum(s) == IF s = <<>> THEN <<0, 1>> ELSE FracAdd(Head(s), FracSum(Tail(s)))

RECURSIVE SelectRefs(_, _)
SelectRefs(s, keep) ==
    IF s = <<>> THEN <<>>
    ELSE IF Head(s) \in keep THEN <<Head(s)>> \o SelectRefs(Tail(s), keep)
    ELSE SelectRefs(Tail(s), keep)

\* a splice that drops the last element instead of element k
RemoveAt_Last(s, k) == [j \in 1..(Len(s) - 1) |-> s[j]]

RemoveAt(s, k) == [j \in 1..(Len(s) - 1) |-> IF j < k THEN s[j] ELSE s[j + 1]]

----------------------------------------------------------------------------
(* Inputs: Subject[] with nested Topic[].  A subject's id and name are its  *)
(* position in the list; a topic's id is its position in its subject (ids   *)
(* are unique within a subject, not across subjects).                       *)

MkTopic(k, a) ==
    [id |-> k, estimatedHours |-> a.estimatedHours, progress |-> a.progress,
     difficulty |-> a.difficulty, completed |-> a.completed]

\* sa: the attributes of each subject; cnt: how many topics each subject has;
\* ta: the attributes of all topics, subject after subject
RECURSIVE TopicsBefore(_, _)
TopicsBefore(cnt, k) == IF k = 1 THEN 0 ELSE cnt[k - 1] + TopicsBefore(cnt, k - 1)

MkSubjects(sa, cnt, ta) ==
    [k \in 1..Len(sa) |->
        [id |-> k, name |-> k, examDate |-> sa[k].examDate,
         dailyHours |-> sa[k].dailyHours, progress |-> sa[k].progress,
         topics |-> [j \in 1..cnt[k] |-> MkTopic(j, ta[TopicsBefore(cnt, k) + j])]]]

\* the subject lists of at most maxS subjects holding at most maxT topics in all
InputSubjects(s, maxS, maxT, SAttrs, TAttrs) ==
    \E n \in 0..maxS : \E cnt \in [1..n -> 0..maxT] :
        /\ TopicsBefore(cnt, n + 1) <= maxT
        /\ \E sa \in [1..n -> SAttrs] : \E ta \in [1..TopicsBefore(cnt, n + 1) -> TAttrs] :
              s = MkSubjects(sa, cnt, ta)

----------------------------------------------------------------------------
(* difficultyWeights, in 1/HourUnits (they are added to hours in the score) *)

\* whole weights: medium counts as easy
difficultyWeights_Whole(d) ==
    CASE d = "easy" -> HourUnits
      [] d = "medium" -> HourUnits
      [] d = "hard" -> 2 * HourUnits

difficultyWeights(d) ==
    CASE d = "easy" -> HourUnits
      [] d = "medium" -> (3 * HourUnits) \div 2
      [] d = "hard" -> 2 * HourUnits

(* extractTopicsFromSubjects: one new object per topic of every subject, in *)
(* subject order then topic order, estimatedHours scaled by the remaining   *)
(* fraction.                                                                *)

RemainingHours(t) == ((t.estimatedHours * HourUnits) * (100 - t.progress)) \div 100

\* the caller's own object, with the scaled hours written into it
FlattenTopic_Alias(s, t) ==
    [id |-> t.id, subjectId |-> s.id, subjectName |-> s.name,
     estimatedHours |-> RemainingHours(t), difficulty |-> t.difficulty,
     completed |-> t.completed, progress |-> t.progress, copy |-> FALSE]

\* copy: the object is a new one (the object literal of lines 94-99), not the
\* caller's topic object
FlattenTopic(s, t) ==
    [id |-> t.id, subjectId |-> s.id, subjectName |-> s.name,
     estimatedHours |-> RemainingHours(t), difficulty |-> t.difficulty,
     completed |-> t.completed, progress |-> t.progress, copy |-> TRUE]

\* The caller's subjects as the heap objs leaves them: a heap object that is
\* the caller's own topic object shows its estimatedHours (whole hours, rounded
\* down) to the caller; a copy shows nothing.
CallerTopic(s, t, objs) ==
    IF \E r \in 1..Len(objs) :
          ~objs[r].copy /\ objs[r].subjectId = s.id /\ objs[r].id = t.id
    THEN LET r == CHOOSE r \in 1..Len(objs) :
                      ~objs[r].copy /\ objs[r].subjectId = s.id /\ objs[r].id = t.id
         IN  [t EXCEPT !.estimatedHours = objs[r].estimatedHours \div HourUnits]
    ELSE t

CallerSubjects(sl, objs) ==
    [j \in 1..Len(sl) |->
        [sl[j] EXCEPT !.topics = [k \in 1..Len(sl[j].topics) |->
                                    CallerTopic(sl[j], sl[j].topics[k], objs)]]]

RECURSIVE extractTopicsFromSubjects(_)
extractTopicsFromSubjects(sl) ==
    IF sl = <<>> THEN <<>>
    ELSE [j \in 1..Len(Head(sl).topics) |-> FlattenTopic(Head(sl), Head(sl).topics[j])]
         \o extractTopicsFromSubjects(Tail(sl))

(* allTopics.filter(topic => !topic.completed): refs of the kept objects *)

\* no filter: completed topics stay in the list
IncompleteRefs_KeepAll(objs) == [j \in 1..Len(objs) |-> j]

\* a filter on progress instead of the completed flag
IncompleteRefs_ByProgress(objs) ==
    SelectRefs([j \in 1..Len(objs) |-> j], {j \in 1..Len(objs) : objs[j].progress < 100})

IncompleteRefs(objs) == SelectRefs([j \in 1..Len(objs) |-> j], {j \in 1..Len(objs) : ~objs[j].completed})

(* prioritizeTasks: Array.prototype.sort (stable) with the comparator       *)
(* difficultyScore * 2 + hoursScore; a positive result puts a after b.      *)

\* the comparator without its difficulty term
Compare_HoursOnly(a, b) == b.estimatedHours - a.estimatedHours

\* the comparator with its sign turned
Compare_Ascending(a, b) ==
    LET difficultyScore == difficultyWeights(a.difficulty) - difficultyWeights(b.difficulty)
        hoursScore == a.estimatedHours - b.estimatedHours
    IN  difficultyScore * 2 + hoursScore

Compare(a, b) ==
    LET difficultyScore == difficultyWeights(b.difficulty) - difficultyWeights(a.difficulty)
        hoursScore == b.estimatedHours - a.estimatedHours
    IN  difficultyScore * 2 + hoursScore

\* insert ref x behind every element that does not compare after it
RECURSIVE InsertSorted(_, _, _)
InsertSorted(sorted, x, objs) ==
    IF sorted = <<>> THEN <<x>>
    ELSE IF Compare(objs[Head(sorted)], objs[x]) > 0
         THEN <<x>> \o sorted
         ELSE <<Head(sorted)>> \o InsertSorted(Tail(sorted), x, objs)

RECURSIVE SortFrom(_, _, _)
SortFrom(sorted, rest, objs) ==
    IF rest = <<>> THEN sorted
    ELSE SortFrom(InsertSorted(sorted, Head(rest), objs), Tail(rest), objs)

prioritizeTasks(refs, objs) == SortFrom(<<>>, refs, objs)

(* calculateStudyPlan *)

RECURSIVE MinExam(_)
MinExam(sl) ==
    IF Len(sl) = 1 THEN Head(sl).examDate
    ELSE Min(Head(sl).examDate, MinExam(Tail(sl)))

\* the horizon without Math.max(1, ...)
DaysUntil_NoClamp(earliestExam, t) == CeilDiv(earliestExam * TicksPerDay - t, TicksPerDay)

DaysUntil(earliestExam, t) == Max(1, CeilDiv(earliestExam * TicksPerDay - t, TicksPerDay))

calculateStudyPlan(sl, t) ==
    LET totalDailyHours == SumSeq([j \in 1..Len(sl) |-> sl[j].dailyHours * HourUnits])
    IN  [computed |-> TRUE,
         daysUntilExams |-> DaysUntil(MinExam(sl), t),
         totalDailyHours |-> totalDailyHours,
         \* totalDailyHours / subjects.length, as a fraction
         averageHoursPerDay |-> Frac(totalDailyHours, Len(sl))]

NoStudyPlan ==
    [computed |-> FALSE, daysUntilExams |-> 0, totalDailyHours |-> 0,
     averageHoursPerDay |-> <<0, 1>>]

----------------------------------------------------------------------------
(* generateDailyTasks: the for loop of one day.  i is the 0-based index,    *)
(* rem the working list, objs the topic heap, dhr dailyHoursRemaining, dt   *)
(* the day's tasks, log what each visited position did.                     *)

Today(t) == t \div TicksPerDay

MinSession == HourUnits \div 2

\* the whole topic, whatever is left of the day
HoursToAllocate_IgnoreBudget(topicHours, dhr) == topicHours

\* the larger of the two
HoursToAllocate_Larger(topicHours, dhr) == Max(topicHours, dhr)

\* sessions of one hour at most
HoursToAllocate_OneHour(topicHours, dhr) == Min(Min(topicHours, dhr), HourUnits)

HoursToAllocate(topicHours, dhr) == Min(topicHours, dhr)

\* any positive session
LongEnough_Positive(hoursToAllocate) == hoursToAllocate > 0

\* a floor of a quarter of an hour
LongEnough_Quarter(hoursToAllocate) == 2 * hoursToAllocate >= MinSession

LongEnough(hoursToAllocate) == hoursToAllocate >= MinSession

TopicDone(topicHours) == topicHours <= 0

NewTask(topic, date, hoursToAllocate) ==
    [id |-> <<topic.id, date>>, date |-> date, topicId |-> topic.id,
     subjectName |-> topic.subjectName, estimatedHours |-> <<hoursToAllocate, 1>>,
     difficulty |-> topic.difficulty, completed |-> FALSE]

\* a topic whose hours are never written back
HoursLeft_Unchanged(topicHours, hoursToAllocate) == topicHours

\* topic.estimatedHours -= hoursToAllocate
HoursLeft(topicHours, hoursToAllocate) == topicHours - hoursToAllocate

\* a splice that is not followed by i--
NextIndex_NoAdjust(i, removed) == i + 1

\* the index of the next visit: splice(i, 1) and i-- when the topic was
\* removed, then the loop's i++
NextIndex(i, removed) == IF removed THEN i ELSE i + 1

RECURSIVE ScanDay(_, _, _, _, _, _, _)
ScanDay(i, rem, objs, dhr, dt, log, date) ==
    IF ~(i < Len(rem) /\ dhr > 0)
    THEN [remainingTopics |-> rem, topicObjs |-> objs, dailyHoursRemaining |-> dhr,
          dayTasks |-> dt, log |-> log]
    ELSE LET ref == rem[i + 1]
             topic == objs[ref]
             hoursToAllocate == HoursToAllocate(topic.estimatedHours, dhr)
         IN  IF LongEnough(hoursToAllocate)
             THEN LET left == HoursLeft(topic.estimatedHours, hoursToAllocate)
                      objs2 == [objs EXCEPT ![ref].estimatedHours = left]
                      dt2 == Append(dt, NewTask(topic, date, hoursToAllocate))
                      entry == [topic |-> ref, hours |-> hoursToAllocate,
                                removed |-> TopicDone(left)]
                  IN  ScanDay(NextIndex(i, TopicDone(left)),
                              IF TopicDone(left) THEN RemoveAt(rem, i + 1) ELSE rem,
                              objs2, dhr - hoursToAllocate, dt2, Append(log, entry), date)
             ELSE ScanDay(i + 1, rem, objs, dhr, dt,
                          Append(log, [topic |-> ref, hours |-> 0, removed |-> FALSE]), date)

----------------------------------------------------------------------------
(* generateRecommendations.  A recommendation is its text and the subject  *)
(* name interpolated into it (0 when the text has no placeholder).          *)

Msg(text) == [text |-> text, name |-> 0]

RecBurnout == Msg("Consider reducing daily study hours to avoid burnout. Quality over quantity!")
RecIncrease == Msg("Consider increasing daily study time to ensure adequate preparation.")
RecHard == Msg("Start with difficult topics when your mind is fresh, typically in the morning.")
RecRevision == Msg("Focus on revision and practice problems rather than learning new concepts.")
RecFoundation == Msg("You have plenty of time! Focus on building strong foundations in each topic.")
RecBehind(name) == [text |-> "Prioritize ${name} - you're behind schedule on this subject.", name |-> name]
RecPomodoro == Msg("Use the Pomodoro Technique: 25 minutes focused study, 5 minutes break.")
RecReview == Msg("Review yesterday's topics for 10 minutes before starting new material.")
RecAllDone == Msg("All topics completed! Great job!")
RecRedistributed == Msg("Don't worry about missed tasks - I've redistributed them to future days.")
RecConsistent == Msg("Stay consistent with your schedule to avoid falling behind.")

\* x > k hours and x < k hours for a fraction x of units
FracGtHours(x, k) == x[1] > k * HourUnits * x[2]

\* x in units compared with k in hours
FracLtHours_NoUnits(x, k) == x[1] < k * x[2]

FracLtHours(x, k) == x[1] < k * HourUnits * x[2]

\* one message for every subject behind schedule
BehindRecs_All(sl) ==
    LET behindSchedule == SelectRefs([j \in 1..Len(sl) |-> j],
                                     {j \in 1..Len(sl) : sl[j].progress < 30})
    IN  [k \in 1..Len(behindSchedule) |-> RecBehind(sl[behindSchedule[k]].name)]

\* lines 212-215: the first subject behind schedule is named
BehindRecs(sl) ==
    LET behindSchedule == SelectRefs([j \in 1..Len(sl) |-> j],
                                     {j \in 1..Len(sl) : sl[j].progress < 30})
    IN  IF Len(behindSchedule) > 0
        THEN <<RecBehind(sl[behindSchedule[1]].name)>> ELSE <<>>

generateRecommendations(sl, sp) ==
    LET load == IF FracGtHours(sp.averageHoursPerDay, 8) THEN <<RecBurnout>>
                ELSE IF FracLtHours(sp.averageHoursPerDay, 2) THEN <<RecIncrease>>
                ELSE <<>>
        hardTopics == \E j \in 1..Len(sl) : \E k \in 1..Len(sl[j].topics) :
                         sl[j].topics[k].difficulty = "hard" /\ ~sl[j].topics[k].completed
        hard == IF hardTopics THEN <<RecHard>> ELSE <<>>
        exam == IF sp.daysUntilExams < 14 THEN <<RecRevision>>
                ELSE IF sp.daysUntilExams > 60 THEN <<RecFoundation>>
                ELSE <<>>
    IN  load \o hard \o exam \o BehindRecs(sl) \o <<RecPomodoro, RecReview>>

----------------------------------------------------------------------------
(* generateSchedule *)

EmptyPlan ==
    [dailyTasks |-> <<>>, totalHours |-> 0, daysUntilExams |-> 0,
     averageHoursPerDay |-> <<0, 1>>, recommendations |-> <<RecAllDone>>]

\* incompleteTasks.reduce((sum, task) => sum + task.estimatedHours, 0), evaluated
\* in the return statement, on the objects the arrays share
TotalHours(refs, objs) == SumSeq([j \in 1..Len(refs) |-> objs[refs[j]].estimatedHours])

Init ==
    /\ now \in NowSet
    /\ InputSubjects(subjects, MaxSubjects, MaxTopics, SubjectAttrs, TopicAttrs)
    /\ pc = "start"
    /\ topicObjs = <<>>
    /\ incompleteTasks = <<>>
    /\ studyPlan = NoStudyPlan
    /\ remainingTopics = <<>>
    /\ currentDay = 0
    /\ dailyTasks = <<>>
    /\ dayLog = <<>>
    /\ taskObjs = <<>>
    /\ plans = <<>>
    /\ calls = <<>>
    /\ completedTopics = <<>>
    /\ reviewTasks = <<>>

\* lines 55-66: nothing to schedule
GenerateScheduleEmpty ==
    /\ pc = "start"
    /\ LET allTopics == extractTopicsFromSubjects(subjects)
       IN  /\ Len(IncompleteRefs(allTopics)) = 0
           /\ topicObjs' = allTopics
           /\ subjects' = CallerSubjects(subjects, allTopics)
    /\ plans' = Append(plans, EmptyPlan)
    /\ pc' = "done"
    /\ UNCHANGED <<now, incompleteTasks, studyPlan, remainingTopics,
                   currentDay, dailyTasks, dayLog, taskObjs, calls>>
    /\ UNCHANGED <<completedTopics, reviewTasks>>

\* lines 55-72 and 135-139: flatten, filter, sort, horizon, working copy
GenerateScheduleBegin ==
    /\ pc = "start"
    /\ LET allTopics == extractTopicsFromSubjects(subjects)
           prioritizedTasks == prioritizeTasks(IncompleteRefs(allTopics), allTopics)
       IN  /\ Len(IncompleteRefs(allTopics)) # 0
           /\ topicObjs' = allTopics
           /\ incompleteTasks' = prioritizedTasks
           /\ remainingTopics' = prioritizedTasks
           /\ subjects' = CallerSubjects(subjects, allTopics)
    /\ studyPlan' = calculateStudyPlan(subjects, now)
    /\ currentDay' = 0
    /\ dailyTasks' = <<>>
    /\ pc' = "allocating"
    /\ UNCHANGED <<now, dayLog, taskObjs, plans, calls>>
    /\ UNCHANGED <<completedTopics, reviewTasks>>

\* one day more than the horizon
LoopContinues_OneMore(rem, day, sp) == Len(rem) > 0 /\ day <= sp.daysUntilExams

\* a loop that runs twice the horizon
LoopContinues_TwiceTheDays(rem, day, sp) == Len(rem) > 0 /\ day < 2 * sp.daysUntilExams

\* the condition of the while loop
LoopContinues(rem, day, sp) == Len(rem) > 0 /\ day < sp.daysUntilExams

\* lines 141-183: one iteration of the while loop
AllocateDay ==
    /\ pc = "allocating"
    /\ LoopContinues(remainingTopics, currentDay, studyPlan)
    /\ LET r == ScanDay(0, remainingTopics, topicObjs, studyPlan.totalDailyHours, <<>>,
                        <<>>, Today(now) + currentDay)
           n == Len(taskObjs)
       IN  /\ remainingTopics' = r.remainingTopics
           /\ topicObjs' = r.topicObjs
           /\ taskObjs' = taskObjs \o r.dayTasks
           /\ dailyTasks' = dailyTasks \o [j \in 1..Len(r.dayTasks) |-> n + j]
           /\ dayLog' = Append(dayLog, [day |-> currentDay, before |-> remainingTopics,
                                        left |-> r.dailyHoursRemaining, log |-> r.log,
                                        after |-> r.remainingTopics])
           /\ subjects' = CallerSubjects(subjects, r.topicObjs)
    /\ currentDay' = currentDay + 1
    /\ UNCHANGED <<now, pc, incompleteTasks, studyPlan, plans, calls>>
    /\ UNCHANGED <<completedTopics, reviewTasks>>

\* lines 185, 78-86: the loop has ended
GenerateScheduleReturn ==
    /\ pc = "allocating"
    /\ ~LoopContinues(remainingTopics, currentDay, studyPlan)
    /\ plans' = Append(plans,
                  [dailyTasks |-> dailyTasks,
                   totalHours |-> TotalHours(incompleteTasks, topicObjs),
                   daysUntilExams |-> studyPlan.daysUntilExams,
                   averageHoursPerDay |-> studyPlan.averageHoursPerDay,
                   recommendations |-> generateRecommendations(subjects, studyPlan)])
    /\ pc' = "done"
    /\ UNCHANGED <<subjects, now, topicObjs, incompleteTasks, studyPlan, remainingTopics,
                   currentDay, dailyTasks, dayLog, taskObjs, calls>>
    /\ UNCHANGED <<completedTopics, reviewTasks>>

\* the caller calls generateSchedule again, at the same instant, with the
\* subject list as the earlier call left it; the call's locals start afresh,
\* the plans and tasks of the earlier calls stay with the caller
GenerateScheduleAgain ==
    /\ pc = "done"
    /\ calls = <<>>
    /\ Len(plans) < MaxGenerations
    /\ pc' = "start"
    /\ topicObjs' = <<>>
    /\ incompleteTasks' = <<>>
    /\ studyPlan' = NoStudyPlan
    /\ remainingTopics' = <<>>
    /\ currentDay' = 0
    /\ dailyTasks' = <<>>
    /\ dayLog' = <<>>
    /\ UNCHANGED <<subjects, now, taskObjs, plans, calls>>
    /\ UNCHANGED <<completedTopics, reviewTasks>>

----------------------------------------------------------------------------
(* rescheduleAfterMissedTasks(currentPlan, missedTasks), called at a date   *)
(* today.  missed is the list of DailyTask values passed in.                *)

Deref(refs, objs) == [j \in 1..Len(refs) |-> objs[refs[j]]]

ActiveTasks(planTasks, missed, objs) ==
    SelectRefs(planTasks,
               {r \in 1..Len(objs) : ~\E m \in 1..Len(missed) : missed[m].id = objs[r].id})

\* today counted as a future day
IsFuture_Inclusive(task, today) == task.date >= today

IsFuture(task, today) == task.date > today

\* every active task, whatever its date
FutureTasks_All(activeTasks, today, objs) == activeTasks

FutureTasks(activeTasks, today, objs) ==
    SelectRefs(activeTasks, {r \in 1..Len(objs) : IsFuture(objs[r], today)})

TotalMissedHours(missed) == FracSum([m \in 1..Len(missed) |-> missed[m].estimatedHours])

\* the missed hours, not divided among the future tasks
AdditionalHoursPerDay_Undivided(totalMissedHours, futureTasks) == totalMissedHours

AdditionalHoursPerDay(totalMissedHours, futureTasks) ==
    FracDivInt(totalMissedHours, Len(futureTasks))

\* futureTasks.forEach(task => { task.estimatedHours += additionalHoursPerDay })
RECURSIVE AddToEach(_, _, _)
AddToEach(objs, refs, add) ==
    IF refs = <<>> THEN objs
    ELSE AddToEach([objs EXCEPT ![Head(refs)].estimatedHours = FracAdd(@, add)],
                   Tail(refs), add)

Redistribute(objs, futureTasks, totalMissedHours) ==
    IF Len(futureTasks) > 0
    THEN AddToEach(objs, futureTasks, AdditionalHoursPerDay(totalMissedHours, futureTasks))
    ELSE objs

\* the whole list
Slice2_All(recs) == recs

\* currentPlan.recommendations.slice(2)
Slice2(recs) == SubSeq(recs, 3, Len(recs))

UpdatedRecommendations(recs) == <<RecRedistributed, RecConsistent>> \o Slice2(recs)

\* a new plan that takes nothing over from currentPlan
ReturnedPlan_NoSpread(currentPlan, activeTasks, updatedRecommendations) ==
    [EmptyPlan EXCEPT !.dailyTasks = activeTasks,
                      !.recommendations = updatedRecommendations]

\* { ...currentPlan, dailyTasks: activeTasks, recommendations: updatedRecommendations }
ReturnedPlan(currentPlan, activeTasks, updatedRecommendations) ==
    [currentPlan EXCEPT !.dailyTasks = activeTasks,
                        !.recommendations = updatedRecommendations]

\* the sub-lists of a list, as increasing index sets turned into lists
SubLists(refs, maxLen) ==
    {SelectRefs(refs, {refs[j] : j \in S}) :
        S \in {T \in SUBSET (1..Len(refs)) : Cardinality(T) <= maxLen}}

Reschedule(p, missed, today) ==
    LET currentPlan == plans[p]
        activeTasks == ActiveTasks(currentPlan.dailyTasks, missed, taskObjs)
        futureTasks == FutureTasks(activeTasks, today, taskObjs)
        totalMissedHours == TotalMissedHours(missed)
        newObjs == Redistribute(taskObjs, futureTasks, totalMissedHours)
        result == ReturnedPlan(currentPlan, activeTasks,
                               UpdatedRecommendations(currentPlan.recommendations))
    IN  /\ taskObjs' = newObjs
        /\ plans' = Append(plans, result)
        /\ calls' = Append(calls,
              [plan |-> p, today |-> today, missed |-> missed,
               input |-> [currentPlan EXCEPT
                             !.dailyTasks = Deref(currentPlan.dailyTasks, taskObjs)],
               inputAfter |-> [currentPlan EXCEPT
                             !.dailyTasks = Deref(currentPlan.dailyTasks, newObjs)],
               result |-> [result EXCEPT !.dailyTasks = Deref(activeTasks, newObjs)]])
        /\ UNCHANGED <<subjects, now, pc, topicObjs, incompleteTasks, studyPlan,
                       remainingTopics, currentDay, dailyTasks, dayLog>>
        /\ UNCHANGED <<completedTopics, reviewTasks>>

\* the caller reschedules its generated plan, some days after generating it,
\* reporting some of the plan's tasks as missed
RescheduleAfterMissedTasks ==
    /\ pc = "done"
    /\ calls = <<>>
    /\ MaxReschedules > 0
    /\ \E shift \in 0..MaxTodayShift :
       \E missedRefs \in SubLists(plans[1].dailyTasks, MaxMissed) :
          Reschedule(1, Deref(missedRefs, taskObjs), Today(now) + shift)

\* the caller repeats its last call, on the same day with the same missed list,
\* on the same plan or on the plan that call returned
RescheduleAgain ==
    /\ pc = "done"
    /\ calls # <<>>
    /\ Len(calls) < MaxReschedules
    /\ \E p \in {calls[Len(calls)].plan, Len(plans)} :
          Reschedule(p, calls[Len(calls)].missed, calls[Len(calls)].today)

----------------------------------------------------------------------------
(* calculateReviewSchedule(completedTopics): for every topic, in order, one *)
(* review task per interval.                                                *)

intervals == <<1, 3, 7, 14, 30>>

FracMax(x, y) == IF FracLeq(x, y) THEN y ELSE x

\* 10% of the topic's hours, without the quarter-hour minimum
ReviewHours_NoMinimum(topic) == Frac(topic.estimatedHours, 10)

\* Math.max(0.25, topic.estimatedHours * 0.1)
ReviewHours(topic) == FracMax(Frac(HourUnits, 4), Frac(topic.estimatedHours, 10))

\* a number below 100 in decimal digits
Digits(n) ==
    LET digit(d) == <<"0", "1", "2", "3", "4", "5", "6", "7", "8", "9">>[d + 1]
    IN  IF n < 10 THEN <<digit(n)>> ELSE <<digit(n \div 10), digit(n % 10)>>

\* an id without the interval
ReviewId_TopicOnly(topic, interval) == <<"review-">> \o topic.id

\* `review-${topic.id}-${interval}`
ReviewId(topic, interval) == <<"review-">> \o topic.id \o <<"-">> \o Digits(interval)

ReviewTask(topic, interval, t) ==
    [id |-> ReviewId(topic, interval), date |-> Today(t) + interval,
     topicId |-> topic.id, topicTitle |-> <<"Review: ">> \o topic.title,
     subjectName |-> topic.subjectName,
     estimatedHours |-> ReviewHours(topic), difficulty |-> topic.difficulty,
     completed |-> FALSE]

RECURSIVE calculateReviewSchedule(_, _)
calculateReviewSchedule(topics, t) ==
    IF topics = <<>> THEN <<>>
    ELSE [m \in 1..Len(intervals) |-> ReviewTask(Head(topics), intervals[m], t)]
         \o calculateReviewSchedule(Tail(topics), t)

CalculateReviewSchedule ==
    /\ pc = "start"
    /\ reviewTasks' = calculateReviewSchedule(completedTopics, now)
    /\ pc' = "done"
    /\ UNCHANGED <<subjects, now, topicObjs, incompleteTasks, studyPlan, remainingTopics,
                   currentDay, dailyTasks, dayLog, taskObjs, plans, calls, completedTopics>>

\* the caller calls calculateReviewSchedule with the same list a day later
CalculateReviewScheduleAgain ==
    /\ pc = "done"
    /\ Len(reviewTasks) > 0
    /\ Today(now) + 1 < MaxReviewCalls
    /\ now' = now + TicksPerDay
    /\ reviewTasks' = calculateReviewSchedule(completedTopics, now')
    /\ UNCHANGED <<subjects, pc, topicObjs, incompleteTasks, studyPlan, remainingTopics,
                   currentDay, dailyTasks, dayLog, taskObjs, plans, calls, completedTopics>>

----------------------------------------------------------------------------

Next ==
    \/ GenerateScheduleEmpty
    \/ GenerateScheduleBegin
    \/ AllocateDay
    \/ GenerateScheduleReturn

Spec == Init /\ [][Next]_vars

(* The rescheduling runs: one subject, then generateSchedule, then calls of *)
(* rescheduleAfterMissedTasks.                                              *)

InitR ==
    /\ now \in NowSet
    /\ InputSubjects(subjects, 1, MaxTopics, ReschedSubjectAttrs, ReschedTopicAttrs)
    /\ pc = "start"
    /\ topicObjs = <<>>
    /\ incompleteTasks = <<>>
    /\ studyPlan = NoStudyPlan
    /\ remainingTopics = <<>>
    /\ currentDay = 0
    /\ dailyTasks = <<>>
    /\ dayLog = <<>>
    /\ taskObjs = <<>>
    /\ plans = <<>>
    /\ calls = <<>>
    /\ completedTopics = <<>>
    /\ reviewTasks = <<>>

NextR ==
    \/ Next
    \/ RescheduleAfterMissedTasks
    \/ RescheduleAgain

SpecR == InitR /\ [][NextR]_vars

(* The identity runs: several subjects whose topics are numbered within     *)
(* their subject, then generateSchedule, then calls of                      *)
(* rescheduleAfterMissedTasks.                                              *)

InitI ==
    /\ now \in NowSet
    /\ InputSubjects(subjects, MaxSubjects, MaxTopics, IdSubjectAttrs, IdTopicAttrs)
    /\ pc = "start"
    /\ topicObjs = <<>>
    /\ incompleteTasks = <<>>
    /\ studyPlan = NoStudyPlan
    /\ remainingTopics = <<>>
    /\ currentDay = 0
    /\ dailyTasks = <<>>
    /\ dayLog = <<>>
    /\ taskObjs = <<>>
    /\ plans = <<>>
    /\ calls = <<>>
    /\ completedTopics = <<>>
    /\ reviewTasks = <<>>

SpecI == InitI /\ [][NextR]_vars

(* The repeated runs: one subject, then generateSchedule again and again.   *)

NextG ==
    \/ Next
    \/ GenerateScheduleAgain

SpecG == InitR /\ [][NextG]_vars

(* The allocator runs: one subject, topics around the floor.                *)

InitA ==
    /\ now \in NowSet
    /\ InputSubjects(subjects, 1, MaxAllocTopics, AllocSubjectAttrs, AllocTopicAttrs)
    /\ pc = "start"
    /\ topicObjs = <<>>
    /\ incompleteTasks = <<>>
    /\ studyPlan = NoStudyPlan
    /\ remainingTopics = <<>>
    /\ currentDay = 0
    /\ dailyTasks = <<>>
    /\ dayLog = <<>>
    /\ taskObjs = <<>>
    /\ plans = <<>>
    /\ calls = <<>>
    /\ completedTopics = <<>>
    /\ reviewTasks = <<>>

SpecA == InitA /\ [][Next]_vars

(* The termination runs: one subject, topics that leave the working list    *)
(* and topics that never do, a daily budget of 2h or of nothing.            *)

InitT ==
    /\ now \in NowSet
    /\ InputSubjects(subjects, 1, MaxTopics, TermSubjectAttrs, TermTopicAttrs)
    /\ pc = "start"
    /\ topicObjs = <<>>
    /\ incompleteTasks = <<>>
    /\ studyPlan = NoStudyPlan
    /\ remainingTopics = <<>>
    /\ currentDay = 0
    /\ dailyTasks = <<>>
    /\ dayLog = <<>>
    /\ taskObjs = <<>>
    /\ plans = <<>>
    /\ calls = <<>>
    /\ completedTopics = <<>>
    /\ reviewTasks = <<>>

\* generateSchedule is synchronous: once called, it runs every step it can take
SpecT == InitT /\ [][Next]_vars /\ WF_vars(Next)

(* The recommendation runs: generateSchedule on subjects with small and     *)
(* large daily budgets.                                                     *)

InitRec ==
    /\ now \in NowSet
    /\ InputSubjects(subjects, MaxSubjects, MaxTopics, RecSubjectAttrs, RecTopicAttrs)
    /\ pc = "start"
    /\ topicObjs = <<>>
    /\ incompleteTasks = <<>>
    /\ studyPlan = NoStudyPlan
    /\ remainingTopics = <<>>
    /\ currentDay = 0
    /\ dailyTasks = <<>>
    /\ dayLog = <<>>
    /\ taskObjs = <<>>
    /\ plans = <<>>
    /\ calls = <<>>
    /\ completedTopics = <<>>
    /\ reviewTasks = <<>>

SpecRec == InitRec /\ [][Next]_vars

(* The review runs: a list of topics, then calculateReviewSchedule.         *)

InitV ==
    /\ now \in ReviewNowSet
    /\ \E n \in 0..MaxReviewTopics : completedTopics \in [1..n -> ReviewTopicAttrs]
    /\ reviewTasks = <<>>
    /\ subjects = <<>>
    /\ pc = "start"
    /\ topicObjs = <<>>
    /\ incompleteTasks = <<>>
    /\ studyPlan = NoStudyPlan
    /\ remainingTopics = <<>>
    /\ currentDay = 0
    /\ dailyTasks = <<>>
    /\ dayLog = <<>>
    /\ taskObjs = <<>>
    /\ plans = <<>>
    /\ calls = <<>>

NextV ==
    \/ CalculateReviewSchedule
    \/ CalculateReviewScheduleAgain

SpecV == InitV /\ [][NextV]_vars

----------------------------------------------------------------------------
(* What the properties speak of, read from the caller's input and from the  *)
(* emitted tasks.                                                           *)

\* the input topics, as <<subject position, topic position>>
InputTopics ==
    UNION {{<<j, k>> : k \in 1..Len(subjects[j].topics)} : j \in 1..Len(subjects)}

InputTopic(jk) == subjects[jk[1]].topics[jk[2]]

Incomplete == {jk \in InputTopics : ~InputTopic(jk).completed}

\* estimatedHours x (100 - progress) / 100 of an input topic, in units
FlattenedHours(jk) ==
    (InputTopic(jk).estimatedHours * HourUnits * (100 - InputTopic(jk).progress)) \div 100

RECURSIVE SumFlattened(_)
SumFlattened(S) ==
    IF S = {} THEN 0
    ELSE LET x == CHOOSE y \in S : TRUE IN FlattenedHours(x) + SumFlattened(S \ {x})

\* the object the flattener made of an input topic
RefOf(jk) ==
    CHOOSE r \in 1..Len(topicObjs) :
        topicObjs[r].subjectId = subjects[jk[1]].id /\ topicObjs[r].id = InputTopic(jk).id

\* the tasks (positions in taskObjs, that is in order of emission) of an input topic
TasksOf(jk) ==
    {i \in 1..Len(taskObjs) :
        /\ taskObjs[i].subjectName = subjects[jk[1]].name
        /\ taskObjs[i].topicId = InputTopic(jk).id}

RECURSIVE SumTaskHours(_)
SumTaskHours(S) ==
    IF S = {} THEN <<0, 1>>
    ELSE LET x == CHOOSE y \in S : TRUE
         IN  FracAdd(taskObjs[x].estimatedHours, SumTaskHours(S \ {x}))

Range(f) == {f[x] : x \in DOMAIN f}

\* the allocator's visits, as <<day (1-based position in dayLog), position in the scan>>
Visits == UNION {{<<d, k>> : k \in 1..Len(dayLog[d].log)} : d \in 1..Len(dayLog)}
Visit(v) == dayLog[v[1]].log[v[2]]
Later(v, w) == v[1] > w[1] \/ (v[1] = w[1] /\ v[2] > w[2])

Harder(d1, d2) == <<d1, d2>> \in {<<"hard", "medium">>, <<"hard", "easy">>, <<"medium", "easy">>}

----------------------------------------------------------------------------
(* C1: when at least one topic is incomplete, the plan generateSchedule     *)
(* returns has totalHours equal to the outstanding hours at generation      *)
(* time: the sum over the incomplete input topics of                        *)
(* estimatedHours x (100 - progress) / 100.                                 *)
C1_TotalHoursIsOutstanding ==
    (pc = "done" /\ Incomplete # {}) => plans[1].totalHours = SumFlattened(Incomplete)

(* C2: the Math scenario (one subject, dailyHours 2, horizon 10 days, T1    *)
(* hard 3h and T2 easy 1h, both at progress 0) yields exactly the tasks     *)
(* (T1, day 0, 2h), (T1, day 1, 1h), (T2, day 1, 1h), in this order.        *)
IsMathScenario ==
    /\ Len(subjects) = 1
    /\ subjects[1].dailyHours = 2
    /\ subjects[1].examDate * TicksPerDay - now \in (9 * TicksPerDay + 1)..(10 * TicksPerDay)
    /\ Len(subjects[1].topics) = 2
    /\ subjects[1].topics[1] =
          [id |-> 1, estimatedHours |-> 3, progress |-> 0, difficulty |-> "hard",
           completed |-> FALSE]
    /\ subjects[1].topics[2] =
          [id |-> 2, estimatedHours |-> 1, progress |-> 0, difficulty |-> "easy",
           completed |-> FALSE]

TaskTriple(t) == <<t.topicId, t.date - Today(now), t.estimatedHours>>

C2_MathScenario ==
    (pc = "done" /\ IsMathScenario) =>
        [j \in 1..Len(plans[1].dailyTasks) |-> TaskTriple(taskObjs[plans[1].dailyTasks[j]])]
          = << <<1, 0, <<2 * HourUnits, 1>> >>,
               <<1, 1, <<HourUnits, 1>> >>,
               <<2, 1, <<HourUnits, 1>> >> >>

C2_Witness == pc = "done" /\ IsMathScenario /\ Len(plans[1].dailyTasks) = 3

(* C3: every task generateSchedule emits has estimatedHours >= 0.5.         *)
C3_MinimumSession ==
    \A i \in 1..Len(taskObjs) :
        2 * taskObjs[i].estimatedHours[1] >= HourUnits * taskObjs[i].estimatedHours[2]

\* a plan with tasks in which a topic with at least 0.5h of work left was passed
\* over because less than 0.5h of the day was left
C3_Witness ==
    /\ pc = "done"
    /\ Len(plans[1].dailyTasks) > 0
    /\ \E v \in Visits :
          /\ Visit(v).hours = 0
          /\ 2 * topicObjs[Visit(v).topic].estimatedHours >= HourUnits

(* C4: for a topic the allocator has removed from its working list, the     *)
(* hours of the tasks emitted for it add up to its flattened remaining      *)
(* hours, and no task is emitted for it at a later scan position or on a    *)
(* later day.                                                               *)
FullyAllocated(jk) ==
    /\ jk \in Incomplete
    /\ pc \in {"allocating", "done"}
    /\ RefOf(jk) \notin Range(remainingTopics)

C4_Conservation ==
    \A jk \in InputTopics :
        FullyAllocated(jk) =>
            /\ SumTaskHours(TasksOf(jk)) = <<FlattenedHours(jk), 1>>
            /\ \A v, w \in Visits :
                  (/\ Visit(v).topic = RefOf(jk)
                   /\ Visit(v).removed
                   /\ Visit(w).topic = RefOf(jk)
                   /\ Later(w, v)) => Visit(w).hours = 0

\* a topic allocated over two days and removed, and another topic given a task
\* after that
C4_Witness ==
    /\ pc = "done"
    /\ \E jk \in InputTopics :
          /\ FullyAllocated(jk)
          /\ Cardinality(TasksOf(jk)) >= 2
          /\ \E v, w \in Visits :
                /\ Visit(v).topic = RefOf(jk) /\ Visit(v).removed
                /\ Later(w, v) /\ Visit(w).hours > 0

(* C5: with no incomplete topic (an empty subject list, subjects without    *)
(* topics, or only completed topics) generateSchedule returns               *)
(* dailyTasks = [], totalHours = 0 and the single all-completed             *)
(* recommendation, and never runs calculateStudyPlan.                       *)
C5_NoWork ==
    (pc = "done" /\ Incomplete = {}) =>
        /\ plans[1].dailyTasks = <<>>
        /\ plans[1].totalHours = 0
        /\ plans[1].recommendations = <<Msg("All topics completed! Great job!")>>
        /\ ~studyPlan.computed
        /\ taskObjs = <<>>

C5_Witness ==
    /\ pc = "done"
    /\ InputTopics # {}
    /\ Incomplete = {}
    /\ Len(plans[1].recommendations) = 1

(* C6, as claimed: for every non-empty subject list whose earliest exam     *)
(* date is not after today, the returned plan has daysUntilExams = 1.       *)
ExamNotAfterToday == \E j \in 1..Len(subjects) : subjects[j].examDate <= Today(now)

C6_ClampAsClaimed ==
    (pc = "done" /\ Len(subjects) > 0 /\ ExamNotAfterToday) => plans[1].daysUntilExams = 1

(* C6, amended: for every subject list with at least one incomplete topic   *)
(* whose earliest exam date is not after today, the returned plan has       *)
(* daysUntilExams = 1.                                                      *)
C6_Clamp ==
    (pc = "done" /\ Incomplete # {} /\ ExamNotAfterToday) => plans[1].daysUntilExams = 1

C6_Witness ==
    /\ pc = "done" /\ Incomplete # {} /\ ExamNotAfterToday
    /\ \A j \in 1..Len(subjects) : subjects[j].examDate * TicksPerDay < now
    /\ plans[1].daysUntilExams = 1

(* C7: for two incomplete topics with equal flattened remaining hours and   *)
(* different difficulty, on every day on which both receive a task the      *)
(* harder topic's task comes earlier in dailyTasks, and the easier one      *)
(* receives no task on a day before the first day on which the harder one   *)
(* receives one, unless the harder one was skipped by the 0.5h floor.       *)
EqualHoursPair(h, e) ==
    /\ h \in Incomplete /\ e \in Incomplete
    /\ FlattenedHours(h) = FlattenedHours(e)
    /\ Harder(InputTopic(h).difficulty, InputTopic(e).difficulty)

SkippedByFloor(jk, date) ==
    \E v \in Visits :
        /\ Visit(v).topic = RefOf(jk)
        /\ Visit(v).hours = 0
        /\ Today(now) + dayLog[v[1]].day <= date

C7_PriorityOrdering ==
    \A h, e \in InputTopics :
        EqualHoursPair(h, e) =>
            /\ \A i \in TasksOf(h), j \in TasksOf(e) :
                  taskObjs[i].date = taskObjs[j].date => i < j
            /\ \A j \in TasksOf(e) :
                  (\A i \in TasksOf(h) : taskObjs[i].date > taskObjs[j].date)
                      => SkippedByFloor(h, taskObjs[j].date)

\* the easier topic comes first in the input and both receive a task on one day
C7_Witness ==
    /\ pc = "done"
    /\ \E h, e \in InputTopics :
          /\ EqualHoursPair(h, e)
          /\ (e[1] < h[1] \/ (e[1] = h[1] /\ e[2] < h[2]))
          /\ \E i \in TasksOf(h), j \in TasksOf(e) : taskObjs[i].date = taskObjs[j].date

----------------------------------------------------------------------------
(* The rescheduler's calls, read from the record of each call: the plan     *)
(* passed in as it was before the call (input) and after it (inputAfter),   *)
(* the missed list, the date of the call, and the plan returned (result).   *)

MissedIds(c) == {c.missed[m].id : m \in 1..Len(c.missed)}

\* positions of the input plan's tasks that no missed task matches, in order
KeptPositions(c) ==
    SelectRefs([j \in 1..Len(c.input.dailyTasks) |-> j],
               {j \in 1..Len(c.input.dailyTasks) : c.input.dailyTasks[j].id \notin MissedIds(c)})

\* those of them dated strictly after the day of the call
FuturePositions(c) == {j \in Range(KeptPositions(c)) : c.input.dailyTasks[j].date > c.today}

MissedHours(c) == FracSum([m \in 1..Len(c.missed) |-> c.missed[m].estimatedHours])

RECURSIVE SumAdded(_, _)
SumAdded(c, S) ==
    IF S = {} THEN <<0, 1>>
    ELSE LET j == CHOOSE y \in S : TRUE
         IN  FracAdd(FracSub(c.inputAfter.dailyTasks[j].estimatedHours,
                             c.input.dailyTasks[j].estimatedHours),
                     SumAdded(c, S \ {j}))

(* C8: when the plan keeps at least one non-missed task dated after today,  *)
(* every such task of the returned plan has gained                          *)
(* totalMissedHours / count(futureTasks), the other returned tasks nothing, *)
(* and the gains add up to totalMissedHours.                                *)
C8_ReschedulingConservation ==
    \A n \in 1..Len(calls) :
        LET c == calls[n]
            kept == KeptPositions(c)
            future == FuturePositions(c)
            share == FracDivInt(MissedHours(c), Cardinality(future))
        IN  future # {} =>
              /\ Len(c.result.dailyTasks) = Len(kept)
              /\ \A k \in 1..Len(kept) :
                    c.result.dailyTasks[k].estimatedHours =
                        IF kept[k] \in future
                        THEN FracAdd(c.input.dailyTasks[kept[k]].estimatedHours, share)
                        ELSE c.input.dailyTasks[kept[k]].estimatedHours
              /\ SumAdded(c, future) = MissedHours(c)

\* two future tasks share the hours of a missed task, and a task of today is kept
C8_Witness ==
    \E n \in 1..Len(calls) :
        /\ Cardinality(FuturePositions(calls[n])) >= 2
        /\ MissedHours(calls[n])[1] > 0
        /\ Len(KeptPositions(calls[n])) > Cardinality(FuturePositions(calls[n]))

(* C9: when no non-missed task is dated after today, the returned tasks are *)
(* the input tasks that no missed task matches, in their order, with        *)
(* unchanged estimatedHours.                                                *)
C9_NoFutureTasks ==
    \A n \in 1..Len(calls) :
        LET c == calls[n]
            kept == KeptPositions(c)
        IN  FuturePositions(c) = {} =>
              c.result.dailyTasks = [k \in 1..Len(kept) |-> c.input.dailyTasks[kept[k]]]

\* missed hours are dropped, and a task is kept
C9_Witness ==
    \E n \in 1..Len(calls) :
        /\ FuturePositions(calls[n]) = {}
        /\ MissedHours(calls[n])[1] > 0
        /\ Len(calls[n].result.dailyTasks) > 0

(* C10: rescheduleAfterMissedTasks leaves the plan passed to it unchanged   *)
(* (its tasks have the same estimatedHours after the call as before), and   *)
(* two calls with the same plan, missed list and today return equal plans.  *)
C10_ReschedulingIsPure ==
    /\ \A n \in 1..Len(calls) : calls[n].inputAfter = calls[n].input
    /\ \A n, m \in 1..Len(calls) :
          (/\ calls[n].plan = calls[m].plan
           /\ calls[n].missed = calls[m].missed
           /\ calls[n].today = calls[m].today) => calls[n].result = calls[m].result

----------------------------------------------------------------------------
\* a returned plan with its tasks read from the heap
PlanView(p) == [plans[p] EXCEPT !.dailyTasks = Deref(@, taskObjs)]

(* C11: generateSchedule does not modify the subjects or topics passed to   *)
(* it (no step of a call changes the subject list: every topic keeps its    *)
(* estimatedHours, progress and completed flag, every topic list its        *)
(* order), and every later call on the same subject list at the same time   *)
(* returns a plan equal to the first call's.                                *)
C11_GenerationIsPure ==
    [][/\ subjects' = subjects
       /\ \A p \in 1..Len(plans') : PlanView(p)' = PlanView(1)']_vars

\* a second call has returned, the first having allocated a topic over two days
C11_Witness ==
    /\ Len(plans) >= 2
    /\ Len(plans[1].dailyTasks) >= 2
    /\ \E i, j \in Range(plans[1].dailyTasks) :
          i # j /\ taskObjs[i].topicId = taskObjs[j].topicId

(* C12: for any list of N topics, calculateReviewSchedule returns exactly   *)
(* 5 x N tasks, five per input topic in input order, dated today+1,         *)
(* today+3, today+7, today+14 and today+30 in that order, each with         *)
(* estimatedHours >= 0.25 and completed = false.                            *)
C12_ReviewCardinality ==
    pc = "done" =>
        /\ Len(reviewTasks) = 5 * Len(completedTopics)
        /\ \A k \in 1..Len(completedTopics) :
              \A m \in 1..5 :
                 LET task == reviewTasks[5 * (k - 1) + m]
                 IN  /\ task.topicId = completedTopics[k].id
                     /\ task.difficulty = completedTopics[k].difficulty
                     /\ task.date = Today(now) + <<1, 3, 7, 14, 30>>[m]
                     /\ 4 * task.estimatedHours[1] >= HourUnits * task.estimatedHours[2]
                     /\ task.completed = FALSE

\* two topics reviewed, one at the quarter-hour minimum and one above it
C12_Witness ==
    /\ pc = "done"
    /\ Len(completedTopics) = 2
    /\ Len(reviewTasks) = 10
    /\ completedTopics[1].estimatedHours < 250
    /\ reviewTasks[1].estimatedHours = <<25, 1>>
    /\ completedTopics[2].estimatedHours > 250
    /\ reviewTasks[6].estimatedHours # <<25, 1>>

----------------------------------------------------------------------------
Contains(recs, r) == \E k \in 1..Len(recs) : recs[k] = r

\* a plan's averageHoursPerDay (a fraction of units) against k hours
AverageAbove(plan, k) ==
    plan.averageHoursPerDay[1] > k * HourUnits * plan.averageHoursPerDay[2]
AverageBelow(plan, k) ==
    plan.averageHoursPerDay[1] < k * HourUnits * plan.averageHoursPerDay[2]

(* C13, as claimed: in every generated plan, when averageHoursPerDay > 8    *)
(* the first recommendation is the burnout warning, when                    *)
(* averageHoursPerDay < 2 the first recommendation is the                   *)
(* increase-study-time suggestion, and the list never holds both.           *)
C13_ThresholdAsClaimed ==
    pc = "done" =>
        LET plan == plans[1]
        IN  /\ AverageAbove(plan, 8) => plan.recommendations[1] = RecBurnout
            /\ AverageBelow(plan, 2) => plan.recommendations[1] = RecIncrease
            /\ ~(Contains(plan.recommendations, RecBurnout)
                  /\ Contains(plan.recommendations, RecIncrease))

(* C13, amended: in every plan generated from subjects with at least one    *)
(* incomplete topic, when averageHoursPerDay > 8 the first recommendation   *)
(* is the burnout warning and when averageHoursPerDay < 2 the first         *)
(* recommendation is the increase-study-time suggestion; no generated       *)
(* recommendation list holds both.                                          *)
C13_Threshold ==
    pc = "done" =>
        LET plan == plans[1]
        IN  /\ Incomplete # {} =>
                  /\ AverageAbove(plan, 8)
                        => plan.recommendations[1] = RecBurnout
                  /\ AverageBelow(plan, 2)
                        => plan.recommendations[1] = RecIncrease
            /\ ~(Contains(plan.recommendations, RecBurnout)
                  /\ Contains(plan.recommendations, RecIncrease))

\* two subjects averaging between 1h and 2h a day, told to study more
C13_Witness ==
    /\ pc = "done"
    /\ Incomplete # {}
    /\ Len(subjects) = 2
    /\ AverageBelow(plans[1], 2)
    /\ AverageAbove(plans[1], 1)
    /\ plans[1].recommendations[1] = RecIncrease

----------------------------------------------------------------------------
\* the tasks of plan p (positions in taskObjs), and the dates they fall on
PlanTasks(p) == Range(plans[p].dailyTasks)
PlanDates(p) == {taskObjs[i].date : i \in PlanTasks(p)}

(* C14: in every generated plan, for every date and every subject, the      *)
(* estimatedHours of that date's tasks of that subject add up to at most    *)
(* that subject's dailyHours.                                               *)
C14_PerSubjectCapacity ==
    pc = "done" =>
        \A date \in PlanDates(1) : \A j \in 1..Len(subjects) :
            FracLeq(SumTaskHours({i \in PlanTasks(1) :
                                    /\ taskObjs[i].date = date
                                    /\ taskObjs[i].subjectName = subjects[j].name}),
                    <<subjects[j].dailyHours * HourUnits, 1>>)

(* C15: the plan rescheduleAfterMissedTasks returns has the totalHours,     *)
(* daysUntilExams and averageHoursPerDay of the plan passed in, whatever    *)
(* tasks were missed and redistributed.                                     *)
C15_ReschedulerFrame ==
    \A n \in 1..Len(calls) :
        /\ calls[n].result.totalHours = calls[n].input.totalHours
        /\ calls[n].result.daysUntilExams = calls[n].input.daysUntilExams
        /\ calls[n].result.averageHoursPerDay = calls[n].input.averageHoursPerDay

\* missed hours were redistributed in a plan whose three fields are not zero
C15_Witness ==
    \E n \in 1..Len(calls) :
        /\ FuturePositions(calls[n]) # {}
        /\ MissedHours(calls[n])[1] > 0
        /\ calls[n].input.totalHours > 0
        /\ calls[n].input.daysUntilExams > 1
        /\ calls[n].input.averageHoursPerDay[1] > 0

----------------------------------------------------------------------------
\* the tasks emitted so far for a date, and the sum of dailyHours over the subjects
TasksOn(date) == {i \in 1..Len(taskObjs) : taskObjs[i].date = date}
SumDailyHours == SumSeq([j \in 1..Len(subjects) |-> subjects[j].dailyHours])

(* C16: for every date, the estimatedHours of all tasks generateSchedule    *)
(* has emitted for that date add up to at most the sum of dailyHours over   *)
(* all subjects passed in, and the returned plan holds exactly these tasks. *)
C16_DailyCapacity ==
    /\ \A i \in 1..Len(taskObjs) :
          FracLeq(SumTaskHours(TasksOn(taskObjs[i].date)), <<SumDailyHours * HourUnits, 1>>)
    /\ pc = "done" => PlanTasks(1) = 1..Len(taskObjs)

\* two subjects; a day filled to the last minute by several tasks, and work left
\* for the next day
C16_Witness ==
    /\ pc = "done"
    /\ Len(subjects) = 2
    /\ \E i \in PlanTasks(1) :
          /\ Cardinality(TasksOn(taskObjs[i].date)) >= 2
          /\ SumTaskHours(TasksOn(taskObjs[i].date)) = <<SumDailyHours * HourUnits, 1>>
          /\ \E j \in PlanTasks(1) : taskObjs[j].date > taskObjs[i].date

(* C17: every non-missed task of the input plan appears in the output of    *)
(* rescheduleAfterMissedTasks, in order, with its date and completion flag; *)
(* one dated today or earlier also keeps its estimatedHours; only tasks     *)
(* dated strictly after today have their estimatedHours changed, and never  *)
(* decreased.                                                               *)
C17_PastAndPresentUntouched ==
    \A n \in 1..Len(calls) :
        LET c == calls[n]
            kept == KeptPositions(c)
        IN  /\ Len(c.result.dailyTasks) = Len(kept)
            /\ \A k \in 1..Len(kept) :
                  LET old == c.input.dailyTasks[kept[k]]
                      new == c.result.dailyTasks[k]
                  IN  /\ new.id = old.id
                      /\ new.date = old.date
                      /\ new.completed = old.completed
                      /\ old.date <= c.today => new = old
                      /\ new.estimatedHours # old.estimatedHours => old.date > c.today
                      /\ FracLeq(old.estimatedHours, new.estimatedHours)

\* a call that keeps a task of an earlier day and a task of today, and adds
\* missed hours to a later task
C17_Witness ==
    \E n \in 1..Len(calls) :
        LET c == calls[n]
        IN  /\ MissedHours(c)[1] > 0
            /\ \E j \in Range(KeptPositions(c)) : c.input.dailyTasks[j].date < c.today
            /\ \E j \in Range(KeptPositions(c)) : c.input.dailyTasks[j].date = c.today
            /\ \E k \in 1..Len(c.result.dailyTasks) :
                  /\ c.result.dailyTasks[k].date > c.today
                  /\ c.result.dailyTasks[k].estimatedHours
                        # c.input.dailyTasks[KeptPositions(c)[k]].estimatedHours

\* call m was given the plan that call n returned
OnOutputOf(m, n) == calls[m].plan = n + 1

(* C18: the recommendations rescheduleAfterMissedTasks returns are the two  *)
(* fixed messages followed by the input plan's recommendations from the     *)
(* third on (none when it has two or fewer), and a call on the plan an      *)
(* earlier call returned returns that plan's recommendations unchanged.     *)
C18_ReschedulerRecommendations ==
    \A n \in 1..Len(calls) :
        LET old == calls[n].input.recommendations
            new == calls[n].result.recommendations
        IN  /\ Len(new) = 2 + (IF Len(old) > 2 THEN Len(old) - 2 ELSE 0)
            /\ new[1] = RecRedistributed
            /\ new[2] = RecConsistent
            /\ \A k \in 3..Len(old) : new[k] = old[k]
            /\ \A m \in 1..Len(calls) : OnOutputOf(m, n) => calls[m].result.recommendations = new

\* a plan with five recommendations rescheduled, and the result rescheduled again
C18_Witness ==
    \E n, m \in 1..Len(calls) :
        /\ OnOutputOf(m, n)
        /\ Len(calls[n].input.recommendations) >= 5
        /\ calls[n].input.recommendations[1] # RecRedistributed
        /\ Len(calls[m].result.recommendations) >= 5

----------------------------------------------------------------------------
\* the input topic a task was emitted for
TopicOfTask(i) ==
    CHOOSE jk \in InputTopics :
        /\ subjects[jk[1]].name = taskObjs[i].subjectName
        /\ InputTopic(jk).id = taskObjs[i].topicId

\* The prioritizer's order, stated on the input: descending
\* 2 x weight + remaining hours (weights 1, 1.5, 2), ties in input order.
Score(jk) ==
    FlattenedHours(jk)
      + (CASE InputTopic(jk).difficulty = "easy" -> 2 * HourUnits
           [] InputTopic(jk).difficulty = "medium" -> 3 * HourUnits
           [] InputTopic(jk).difficulty = "hard" -> 4 * HourUnits)

InputBefore(a, b) == a[1] < b[1] \/ (a[1] = b[1] /\ a[2] < b[2])

PrioritizedBefore(a, b) == Score(a) > Score(b) \/ (Score(a) = Score(b) /\ InputBefore(a, b))

(* C19: in every generated plan the dates of dailyTasks never decrease      *)
(* along the sequence, and of two tasks of one date the earlier one belongs *)
(* to the topic the prioritizer put first.                                  *)
C19_OutputOrder ==
    pc = "done" =>
        LET tasks == plans[1].dailyTasks
        IN  \A a, b \in 1..Len(tasks) :
                a < b =>
                    /\ taskObjs[tasks[a]].date <= taskObjs[tasks[b]].date
                    /\ taskObjs[tasks[a]].date = taskObjs[tasks[b]].date
                          => PrioritizedBefore(TopicOfTask(tasks[a]), TopicOfTask(tasks[b]))

\* a plan over two dates with two tasks on one date, the first of them for the
\* topic that comes later in the input
C19_Witness ==
    /\ pc = "done"
    /\ Cardinality(PlanDates(1)) >= 2
    /\ \E a, b \in 1..Len(plans[1].dailyTasks) :
          /\ a < b
          /\ taskObjs[plans[1].dailyTasks[a]].date = taskObjs[plans[1].dailyTasks[b]].date
          /\ InputBefore(TopicOfTask(plans[1].dailyTasks[b]), TopicOfTask(plans[1].dailyTasks[a]))

----------------------------------------------------------------------------
\* more outstanding work than the days of the plan can hold
Overrun(p) ==
    SumFlattened(Incomplete) > plans[p].daysUntilExams * SumDailyHours * HourUnits

(* C20: generateSchedule returns a plan whatever the amount of work; every  *)
(* task of the plan is dated within today .. today + daysUntilExams - 1,    *)
(* the plan's allocated hours are at most daysUntilExams x totalDailyHours, *)
(* and when the work exceeds that, topics are left in the working list      *)
(* with no task on any later date.                                          *)
C20_CapacityOverrun ==
    /\ pc = "allocating" => ENABLED (AllocateDay \/ GenerateScheduleReturn)
    /\ pc = "done" =>
          /\ \A i \in PlanTasks(1) :
                /\ taskObjs[i].date >= Today(now)
                /\ taskObjs[i].date <= Today(now) + plans[1].daysUntilExams - 1
          /\ FracLeq(SumTaskHours(PlanTasks(1)),
                     <<plans[1].daysUntilExams * SumDailyHours * HourUnits, 1>>)
          /\ Overrun(1) =>
                /\ remainingTopics # <<>>
                /\ currentDay = plans[1].daysUntilExams

\* work for more than a horizon of two days: a task on the last day, hours
\* left over
C20_Witness ==
    /\ pc = "done"
    /\ Overrun(1)
    /\ plans[1].daysUntilExams = 2
    /\ \E i \in PlanTasks(1) : taskObjs[i].date = Today(now) + plans[1].daysUntilExams - 1
    /\ \E k \in 1..Len(remainingTopics) :
          topicObjs[remainingTopics[k]].estimatedHours >= HourUnits

----------------------------------------------------------------------------
\* incomplete input topics with less than 0.5h of flattened remaining hours
SubFloor == {jk \in Incomplete : 2 * FlattenedHours(jk) < HourUnits}

\* position of a topic object in a list of refs (0 when absent)
PositionIn(refs, r) ==
    IF r \in Range(refs) THEN CHOOSE k \in 1..Len(refs) : refs[k] = r ELSE 0

(* C21: an incomplete topic with less than 0.5h of flattened remaining      *)
(* hours (0 included) receives no task on any day and stays in the working  *)
(* list until the horizon ends; on every day the scan goes on to the topic  *)
(* behind it.                                                               *)
C21_SubFloorNeverScheduled ==
    pc \in {"allocating", "done"} =>
        \A jk \in SubFloor :
            /\ TasksOf(jk) = {}
            /\ RefOf(jk) \in Range(remainingTopics)
            /\ pc = "done" => currentDay = studyPlan.daysUntilExams
            /\ \A v \in Visits :
                  Visit(v).topic = RefOf(jk) =>
                      /\ Visit(v).hours = 0
                      /\ ~Visit(v).removed
                      /\ LET before == dayLog[v[1]].before
                         IN  PositionIn(before, RefOf(jk)) < Len(before)
                                => /\ v[2] < Len(dayLog[v[1]].log)
                                   /\ dayLog[v[1]].log[v[2] + 1].topic
                                         = before[PositionIn(before, RefOf(jk)) + 1]

\* a 0.25h topic ahead of a topic that is given a task later on the same day
C21_Witness ==
    /\ pc = "done"
    /\ \E jk \in SubFloor : \E v, w \in Visits :
          /\ FlattenedHours(jk) > 0
          /\ Visit(v).topic = RefOf(jk)
          /\ w[1] = v[1] /\ w[2] > v[2]
          /\ Visit(w).hours > 0

(* C22: no task refers to a topic whose completed flag is true in the       *)
(* input, whatever its progress or estimated hours; the flattener makes one *)
(* object of every input topic, completed or not, in input order, and the   *)
(* completed ones are dropped after that.                                   *)
C22_CompletedExcluded ==
    pc \in {"allocating", "done"} =>
        /\ Len(topicObjs) = Cardinality(InputTopics)
        /\ \A jk \in InputTopics :
              /\ \E r \in 1..Len(topicObjs) :
                    /\ topicObjs[r].subjectId = subjects[jk[1]].id
                    /\ topicObjs[r].id = InputTopic(jk).id
                    /\ topicObjs[r].completed = InputTopic(jk).completed
                    /\ \A jk2 \in InputTopics : InputBefore(jk2, jk) => RefOf(jk2) < r
              /\ InputTopic(jk).completed =>
                    /\ TasksOf(jk) = {}
                    /\ RefOf(jk) \notin Range(incompleteTasks)
                    /\ topicObjs[RefOf(jk)].estimatedHours = FlattenedHours(jk)

\* a completed topic with hours left comes first in the input; the other topic
\* is given a task
C22_Witness ==
    /\ pc = "done"
    /\ \E jk \in InputTopics :
          /\ InputTopic(jk).completed
          /\ FlattenedHours(jk) > 0
          /\ jk[2] = 1
    /\ Len(plans[1].dailyTasks) > 0

----------------------------------------------------------------------------
\* the rule a recommendation comes from: 1 load, 2 hard topics, 3 exam
\* proximity, 4 subject behind schedule, 5 and 6 the general tips; 0 otherwise
RuleOf(rec) ==
    CASE rec \in {RecBurnout, RecIncrease} -> 1
      [] rec = RecHard -> 2
      [] rec \in {RecRevision, RecFoundation} -> 3
      [] rec.text = RecBehind(0).text -> 4
      [] rec = RecPomodoro -> 5
      [] rec = RecReview -> 6
      [] OTHER -> 0

(* C23: for every plan with at least one incomplete topic, the              *)
(* recommendations come in the rule order load, hard topics, exam           *)
(* proximity, subject behind schedule, Pomodoro tip, daily-review tip, at   *)
(* most one per rule; the last two entries are the two tips, the revision   *)
(* and foundation messages never both appear, and the list has 2 to 6       *)
(* entries.                                                                 *)
C23_RecommendationShape ==
    (pc = "done" /\ Incomplete # {}) =>
        LET recs == plans[1].recommendations
            n == Len(recs)
        IN  /\ n >= 2 /\ n <= 6
            /\ recs[n - 1] = RecPomodoro
            /\ recs[n] = RecReview
            /\ \A k \in 1..n : RuleOf(recs[k]) # 0
            /\ \A k \in 1..(n - 1) : RuleOf(recs[k]) < RuleOf(recs[k + 1])
            /\ ~(Contains(recs, RecRevision) /\ Contains(recs, RecFoundation))

\* two subjects behind schedule, more than 60 days ahead: six entries
C23_Witness ==
    /\ pc = "done"
    /\ Incomplete # {}
    /\ Cardinality({j \in 1..Len(subjects) : subjects[j].progress < 30}) = 2
    /\ Len(plans[1].recommendations) = 6
    /\ Contains(plans[1].recommendations, RecFoundation)

----------------------------------------------------------------------------
\* the identifiers of the returned review tasks, in order
ReviewIdsReturned == [k \in 1..Len(reviewTasks) |-> reviewTasks[k].id]

\* the text of an interval
IntervalText(m) == << <<"1">>, <<"3">>, <<"7">>, <<"1", "4">>, <<"3", "0">> >>[m]

ReviewContent ==
    /\ \A k \in 1..Len(completedTopics) : \A m \in 1..5 :
          LET t == completedTopics[k]
              task == reviewTasks[5 * (k - 1) + m]
          IN  /\ task.estimatedHours =
                    (IF 10 * HourUnits >= 4 * t.estimatedHours
                     THEN <<HourUnits \div 4, 1>> ELSE Frac(t.estimatedHours, 10))
              /\ task.topicTitle = <<"Review: ">> \o t.title
              /\ task.id = <<"review-">> \o t.id \o <<"-">> \o IntervalText(m)
    /\ (\A j, k \in 1..Len(completedTopics) :
            j # k => completedTopics[j].id # completedTopics[k].id)
          => \A a, b \in 1..Len(reviewTasks) : a # b => reviewTasks[a].id # reviewTasks[b].id

(* C24: each task calculateReviewSchedule returns for topic t and offset k  *)
(* has estimatedHours = max(0.25, 0.10 x t.estimatedHours), the title       *)
(* 'Review: ' + t.title and the identifier 'review-' + t.id + '-' + k; a    *)
(* later call with the same topics returns the same identifiers; for topics *)
(* with distinct ids the identifiers are pairwise distinct.                 *)
C24_ReviewContent ==
    [][pc' = "done" =>
          /\ ReviewContent'
          /\ pc = "done" => ReviewIdsReturned' = ReviewIdsReturned]_vars

\* a second call, a day later, on topics "a" and "a-1"
C24_Witness ==
    /\ pc = "done"
    /\ Today(now) >= 1
    /\ Len(completedTopics) = 2
    /\ completedTopics[1].id = <<"a">>
    /\ completedTopics[2].id = <<"a", "-", "1">>
    /\ Len(reviewTasks) = 10

----------------------------------------------------------------------------
\* the days the allocator has run are at most daysUntilExams, and the scan of
\* each day visited no topic twice
TerminationBound ==
    studyPlan.computed =>
        /\ studyPlan.daysUntilExams >= 1
        /\ currentDay <= studyPlan.daysUntilExams
        /\ Len(dayLog) = currentDay
        /\ \A d \in 1..Len(dayLog) :
              /\ Len(dayLog[d].log) <= Len(dayLog[d].before)
              /\ \A j, k \in 1..Len(dayLog[d].log) :
                    j # k => dayLog[d].log[j].topic # dayLog[d].log[k].topic

(* C25: the allocator loop ends, after at most daysUntilExams day           *)
(* iterations, each of which scans every topic of the working list at most  *)
(* once, even when topics can never be removed (less than 0.5h left, or a   *)
(* daily budget of zero).                                                   *)
C25_Termination == []TerminationBound /\ <>(pc = "done")

\* ten days run to the end with a topic that never leaves the list
C25_Witness ==
    /\ pc = "done"
    /\ SubFloor # {}
    /\ currentDay = 10
    /\ Len(plans[1].dailyTasks) > 0

----------------------------------------------------------------------------
\* the object the flattener makes of an input topic, as the prioritizer sees it
Flat(jk) == FlattenTopic(subjects[jk[1]], InputTopic(jk))

\* the input topic of a flattened object
InputOf(r) == CHOOSE jk \in InputTopics : RefOf(jk) = r

----------------------------------------------------------------------------
\* the date of an allocator day (1-based position in dayLog)
DateOfDay(d) == Today(now) + d - 1

\* the hours, as a fraction of units, of the tasks of a set
Allocated(S) == SumTaskHours(S)

\* at least 0.5h of the budget of day d is not in any task of its date
IdleAtLeastFloor(d) ==
    LET a == Allocated(TasksOn(DateOfDay(d)))
    IN  2 * (SumDailyHours * HourUnits * a[2] - a[1]) >= HourUnits * a[2]

\* the tasks of an input topic dated up to day d
TasksUpTo(jk, d) == {i \in TasksOf(jk) : taskObjs[i].date <= DateOfDay(d)}

\* the flattened hours of an input topic less its tasks up to day d are below 0.5h
BelowFloorAfter(jk, d) ==
    LET a == Allocated(TasksUpTo(jk, d))
    IN  2 * (FlattenedHours(jk) * a[2] - a[1]) < HourUnits * a[2]

(* C27: at the end of every allocator day on which at least 0.5h of the     *)
(* daily budget is left unallocated, every topic still in the working list  *)
(* has less than 0.5h remaining.                                            *)
C27_NoIdleCapacity ==
    pc \in {"allocating", "done"} =>
        \A d \in 1..Len(dayLog) :
            IdleAtLeastFloor(d) =>
                /\ 2 * dayLog[d].left >= HourUnits
                /\ \A k \in 1..Len(dayLog[d].after) :
                      BelowFloorAfter(InputOf(dayLog[d].after[k]), d)
                /\ d = Len(dayLog) =>
                      \A k \in 1..Len(remainingTopics) :
                          2 * topicObjs[remainingTopics[k]].estimatedHours < HourUnits

\* a day that removes its first topic, gives the next one a task and ends
\* with an hour to spare and a 0.25h topic in the list
C27_Witness ==
    /\ pc = "done"
    /\ \E d \in 1..Len(dayLog) :
          /\ IdleAtLeastFloor(d)
          /\ Len(dayLog[d].log) >= 3
          /\ dayLog[d].log[1].hours = 0
          /\ dayLog[d].log[2].removed
          /\ dayLog[d].log[3].hours > 0
          /\ \E k \in 1..Len(dayLog[d].after) :
                topicObjs[dayLog[d].after[k]].estimatedHours > 0

----------------------------------------------------------------------------
\* the hours of an input topic not in any task of an earlier date than task i's
RemainderBefore(i) ==
    LET jk == TopicOfTask(i)
        a == Allocated({j \in TasksOf(jk) : taskObjs[j].date < taskObjs[i].date})
    IN  Frac(FlattenedHours(jk) * a[2] - a[1], a[2])

\* task i takes all that is left of its topic
Whole(i) == taskObjs[i].estimatedHours = RemainderBefore(i)

\* the allocator day of a task
DayOfTask(i) == taskObjs[i].date - Today(now) + 1

(* C28: of the tasks emitted for one date, every task but possibly the last *)
(* takes all the remaining hours of its topic, and the topic leaves the     *)
(* working list; a task that leaves its topic unfinished uses up the day's  *)
(* budget.                                                                  *)
C28_OnePartialPerDay ==
    pc \in {"allocating", "done"} =>
        \A i \in 1..Len(taskObjs) :
            LET after == TasksOn(taskObjs[i].date) \cap {j \in 1..Len(taskObjs) : j > i}
                all == Allocated(TasksOn(taskObjs[i].date))
            IN  /\ after # {} => Whole(i)
                /\ Whole(i) =>
                      RefOf(TopicOfTask(i)) \notin Range(dayLog[DayOfTask(i)].after)
                /\ ~Whole(i) =>
                      /\ after = {}
                      /\ all[1] = SumDailyHours * HourUnits * all[2]
                      /\ dayLog[DayOfTask(i)].left = 0
                      /\ RefOf(TopicOfTask(i)) \in Range(dayLog[DayOfTask(i)].after)

\* a date with two tasks, the first whole and the second partial
C28_Witness ==
    /\ pc = "done"
    /\ \E i, j \in 1..Len(taskObjs) :
          /\ i < j
          /\ taskObjs[i].date = taskObjs[j].date
          /\ Whole(i)
          /\ ~Whole(j)

----------------------------------------------------------------------------
(* C29: after any number of allocator days, for every topic the hours of    *)
(* the tasks emitted for it add up to at most its flattened remaining       *)
(* hours, and the topic's working hours are the flattened hours less that   *)
(* sum, never negative.                                                     *)
C29_NoOverAllocation ==
    pc \in {"allocating", "done"} =>
        \A jk \in InputTopics :
            LET a == Allocated(TasksOf(jk))
                h == topicObjs[RefOf(jk)].estimatedHours
            IN  /\ a[1] <= FlattenedHours(jk) * a[2]
                /\ h * a[2] = FlattenedHours(jk) * a[2] - a[1]
                /\ h >= 0

\* a topic given tasks on two days, with hours still left at the return
C29_Witness ==
    /\ pc = "done"
    /\ \E jk \in InputTopics :
          /\ Cardinality(TasksOf(jk)) >= 2
          /\ topicObjs[RefOf(jk)].estimatedHours > 0

----------------------------------------------------------------------------
\* two tasks of one topic of one subject
SameTopic(a, b) == a.subjectName = b.subjectName /\ a.topicId = b.topicId

\* the topic ids of every subject are pairwise distinct within the subject
IdsUniqueWithinSubjects ==
    \A j \in 1..Len(subjects) : \A k, l \in 1..Len(subjects[j].topics) :
        k # l => subjects[j].topics[k].id # subjects[j].topics[l].id

\* the positions of a call's input plan whose task has the id of the missed task
Hit(c) == {k \in 1..Len(c.input.dailyTasks) : c.input.dailyTasks[k].id = c.missed[1].id}

(* C30: in every generated plan each flattened topic has at most one task   *)
(* per date and each task's id is made of its topic id and its date alone;  *)
(* for inputs whose topic ids are unique within each subject the task ids   *)
(* of the plan are pairwise distinct, and rescheduleAfterMissedTasks with   *)
(* one missed task of the plan removes exactly one task.                    *)
C30_TaskIdentity ==
    /\ pc = "done" =>
          LET tasks == Deref(plans[1].dailyTasks, taskObjs)
          IN  /\ \A a, b \in 1..Len(tasks) :
                    (a # b /\ SameTopic(tasks[a], tasks[b])) => tasks[a].date # tasks[b].date
              /\ \A a \in 1..Len(tasks) : tasks[a].id = <<tasks[a].topicId, tasks[a].date>>
              /\ IdsUniqueWithinSubjects =>
                    \A a, b \in 1..Len(tasks) : a # b => tasks[a].id # tasks[b].id
    /\ IdsUniqueWithinSubjects =>
          \A n \in 1..Len(calls) :
              (Len(calls[n].missed) = 1 /\ Hit(calls[n]) # {})
                  => Len(calls[n].result.dailyTasks) = Len(calls[n].input.dailyTasks) - 1

====
